---- MODULE Spec2Model ----
(***************************************************************************)
(* A model of src/main.py: the CSV normalizer (snake_case, convert_amount, *)
(* infer_column_mapping, normalize_row, process_csv and the two-decimal    *)
(* formatting of print_readable_data).                                     *)
(*                                                                         *)
(* A Python str is a sequence of one-character strings, so that strip,     *)
(* replace, rfind, the regular expressions and the Decimal and datetime    *)
(* parsers are computed character by character as the code computes them.  *)
(***************************************************************************)
EXTENDS Integers, Sequences, FiniteSets, TLC

VARIABLES
    s, snake,                                   \* snake_case: argument, result
    amount_str, amount, formatted, reparsed,    \* convert_amount, the f"{x:.2f}" text, its re-parse
    row, inferred, first,                       \* infer_column_mapping: argument, result; the row normalized
    file, has_header, column_mapping,           \* process_csv: the rows csv.reader yields, the arguments
    pc, pos, headers, mapping, normalized_data, warnings, result

snakeVars  == <<s, snake>>
amountVars == <<amount_str, amount, formatted, reparsed>>
inferVars  == <<row, inferred, first>>
csvVars    == <<file, has_header, column_mapping, pc, pos, headers, mapping,
                normalized_data, warnings, result>>
vars       == <<s, snake, amount_str, amount, formatted, reparsed, row, inferred, first,
                file, has_header, column_mapping, pc, pos, headers, mapping,
                normalized_data, warnings, result>>

\* A variable that holds no value yet (Python: the name is not bound yet).
NotYet == [kind |-> "NotYet"]
\* Python's None (the default of column_mapping).
None == [kind |-> "None"]
\* The exceptions the code raises; the model keeps the type only.
ValueError == [kind |-> "ValueError"]
KeyError == [kind |-> "KeyError"]
StopIteration == [kind |-> "StopIteration"]
\* A str value held by a variable that may also hold NotYet or an exception.
Str(v) == [kind |-> "str", val |-> v]

(***************************************************************************)
(* Bounds of the model.                                                    *)
(***************************************************************************)
MaxHeaderLen == 4
MaxAmountLen == 4
MaxCols == 5
MaxRows == 3

(***************************************************************************)
(* str methods.                                                            *)
(***************************************************************************)
DigitSeq == <<"0", "1", "2", "3", "4", "5", "6", "7", "8", "9">>
UpperSeq == <<"A", "B", "C", "D", "E", "F", "G", "H", "I", "J", "K", "L", "M",
              "N", "O", "P", "Q", "R", "S", "T", "U", "V", "W", "X", "Y", "Z">>
LowerSeq == <<"a", "b", "c", "d", "e", "f", "g", "h", "i", "j", "k", "l", "m",
              "n", "o", "p", "q", "r", "s", "t", "u", "v", "w", "x", "y", "z">>
Whitespace == {" ", "\t", "\n", "\r"}

Digits == {DigitSeq[i] : i \in 1..10}
Uppers == {UpperSeq[i] : i \in 1..26}
Lowers == {LowerSeq[i] : i \in 1..26}
DigitValue == [c \in Digits |-> (CHOOSE i \in 1..10 : DigitSeq[i] = c) - 1]
LowerOf == [c \in Uppers |-> LowerSeq[CHOOSE i \in 1..26 : UpperSeq[i] = c]]

IsDigit(c) == c \in Digits
IsUpper(c) == c \in Uppers
IsLower(c) == c \in Lowers
IsAlpha(c) == IsUpper(c) \/ IsLower(c)
AllDigits(str) == \A i \in 1..Len(str) : IsDigit(str[i])

DigitVal(c) == DigitValue[c]
lower_char(c) == IF IsUpper(c) THEN LowerOf[c] ELSE c
lower(str) == [i \in 1..Len(str) |-> lower_char(str[i])]

RECURSIVE lstrip(_)
lstrip(str) == IF str # <<>> /\ Head(str) \in Whitespace THEN lstrip(Tail(str)) ELSE str
RECURSIVE rstrip(_)
rstrip(str) ==
    IF str # <<>> /\ str[Len(str)] \in Whitespace
    THEN rstrip(SubSeq(str, 1, Len(str) - 1)) ELSE str
strip(str) == rstrip(lstrip(str))

\* str.replace(old, new) for a one-character old; new is a string (possibly empty).
RECURSIVE replace(_, _, _)
replace(str, old, new) ==
    IF str = <<>> THEN <<>>
    ELSE (IF Head(str) = old THEN new ELSE <<Head(str)>>) \o replace(Tail(str), old, new)

Contains(str, c) == \E i \in 1..Len(str) : str[i] = c
\* str.rfind(c): the highest index (Python counts from 0), -1 when c is absent.
rfind(str, c) ==
    IF Contains(str, c)
    THEN (CHOOSE i \in 1..Len(str) : str[i] = c /\ \A j \in (i + 1)..Len(str) : str[j] # c) - 1
    ELSE -1
\* str.find(c), from 1; 0 when c is absent.
FirstIndex(str, c) ==
    IF Contains(str, c)
    THEN CHOOSE i \in 1..Len(str) : str[i] = c /\ \A j \in 1..(i - 1) : str[j] # c
    ELSE 0

\* str.split(sep) for a one-character sep: the list of parts.
RECURSIVE split(_, _)
split(str, sep) ==
    LET i == FirstIndex(str, sep)
    IN  IF i = 0 THEN <<str>>
        ELSE <<SubSeq(str, 1, i - 1)>> \o split(SubSeq(str, i + 1, Len(str)), sep)

\* sep.join(parts)
RECURSIVE join(_, _)
join(sep, parts) ==
    IF parts = <<>> THEN <<>>
    ELSE IF Len(parts) = 1 THEN parts[1]
    ELSE parts[1] \o <<sep>> \o join(sep, Tail(parts))

\* All strings over an alphabet of length at most n.
StringsUpTo(alphabet, n) == UNION {[1..k -> alphabet] : k \in 0..n}

(***************************************************************************)
(* snake_case                                                              *)
(***************************************************************************)
\* re.sub(r'(?<!^)(?=[A-Z])', '_', part): an underscore before every upper-case
\* letter that is not the first character of part.
RECURSIVE InsertBeforeUpperFrom(_, _)
InsertBeforeUpperFrom(part, i) ==
    IF i > Len(part) THEN <<>>
    ELSE (IF i > 1 /\ IsUpper(part[i]) THEN <<"_", part[i]>> ELSE <<part[i]>>)
         \o InsertBeforeUpperFrom(part, i + 1)
InsertBeforeUpper(part) == InsertBeforeUpperFrom(part, 1)

\* re.sub(r'_+', '_', str): every run of underscores becomes one underscore.
RECURSIVE CollapseUnderscores(_)
CollapseUnderscores(str) ==
    IF Len(str) < 2 THEN str
    ELSE IF str[1] = "_" /\ str[2] = "_" THEN CollapseUnderscores(Tail(str))
    ELSE <<str[1]>> \o CollapseUnderscores(Tail(str))

snake_case(str) ==
    LET parts == split(str, "_")
        snake_parts == [k \in 1..Len(parts) |-> lower(InsertBeforeUpper(parts[k]))]
    IN  CollapseUnderscores(join("_", snake_parts))

(***************************************************************************)
(* decimal.Decimal(str) and the f"{x:.2f}" formatting of a Decimal.        *)
(***************************************************************************)
RECURSIVE Pow10(_)
Pow10(n) == IF n <= 0 THEN 1 ELSE 10 * Pow10(n - 1)

RECURSIVE DigitsToInt(_)
DigitsToInt(str) ==
    IF str = <<>> THEN 0
    ELSE 10 * DigitsToInt(SubSeq(str, 1, Len(str) - 1)) + DigitVal(str[Len(str)])

RECURSIVE IntToDigits(_)
IntToDigits(n) ==
    IF n < 10 THEN <<DigitSeq[n + 1]>>
    ELSE IntToDigits(n \div 10) \o <<DigitSeq[(n % 10) + 1]>>

INF == <<"i", "n", "f">>
INFINITY == <<"i", "n", "f", "i", "n", "i", "t", "y">>
NAN == <<"n", "a", "n">>

\* The numeric branch of Decimal's grammar,
\*   (?=\d|\.\d)(?P<int>\d*)(\.(?P<frac>\d*))?(E(?P<exp>[-+]?\d+))?
\* on a lower-cased string without its sign: expo is the text after the E.
ExpDigits(expo) == IF expo # <<>> /\ expo[1] \in {"+", "-"} THEN Tail(expo) ELSE expo
ExpValue(expo) ==
    IF expo # <<>> /\ expo[1] = "-" THEN 0 - DigitsToInt(Tail(expo))
    ELSE DigitsToInt(ExpDigits(expo))

Finite(sign, int, frac, hasExp, expo) ==
    IF /\ AllDigits(int) /\ AllDigits(frac)
       /\ (int # <<>> \/ frac # <<>>)
       /\ (hasExp => (ExpDigits(expo) # <<>> /\ AllDigits(ExpDigits(expo))))
    THEN [kind |-> "finite", sign |-> sign, coeff |-> DigitsToInt(int \o frac),
          exp |-> (IF hasExp THEN ExpValue(expo) ELSE 0) - Len(frac)]
    ELSE ValueError

Mantissa(sign, mant, dot, hasExp, expo) ==
    IF dot = 0 THEN Finite(sign, mant, <<>>, hasExp, expo)
    ELSE Finite(sign, SubSeq(mant, 1, dot - 1), SubSeq(mant, dot + 1, Len(mant)),
                hasExp, expo)

MantissaAndExp(sign, mant, hasExp, expo) ==
    Mantissa(sign, mant, FirstIndex(mant, "."), hasExp, expo)

DecimalNumberAt(sign, body, e) ==
    IF e = 0 THEN MantissaAndExp(sign, body, FALSE, <<>>)
    ELSE MantissaAndExp(sign, SubSeq(body, 1, e - 1), TRUE, SubSeq(body, e + 1, Len(body)))

DecimalNumber(sign, body) == DecimalNumberAt(sign, body, FirstIndex(body, "e"))

\* The branch (?P<signal>s)?NaN(?P<diag>\d*); the payload loses its leading zeros.
IsNaNText(body) ==
    \/ Len(body) >= 3 /\ SubSeq(body, 1, 3) = NAN
    \/ Len(body) >= 4 /\ body[1] = "s" /\ SubSeq(body, 2, 4) = NAN
NaNPayload(body) ==
    IF body[1] = "s" THEN SubSeq(body, 5, Len(body)) ELSE SubSeq(body, 4, Len(body))
PayloadDigits(payload) ==
    IF DigitsToInt(payload) > 0 THEN IntToDigits(DigitsToInt(payload)) ELSE <<>>

DecimalBody(sign, body) ==
    IF body = INF \/ body = INFINITY THEN [kind |-> "Infinity", sign |-> sign]
    ELSE IF IsNaNText(body) /\ AllDigits(NaNPayload(body))
    THEN [kind |-> "NaN", sign |-> sign, signaling |-> (body[1] = "s"),
          payload |-> PayloadDigits(NaNPayload(body))]
    ELSE DecimalNumber(sign, body)

DecimalText(t) ==
    IF t # <<>> /\ t[1] \in {"+", "-"}
    THEN DecimalBody(IF t[1] = "-" THEN 1 ELSE 0, Tail(t))
    ELSE DecimalBody(0, t)

\* Decimal(value): value.strip() without underscores, an optional sign, then a number,
\* Inf, Infinity, NaN or sNaN with an optional payload, in any case. ValueError stands
\* for decimal.InvalidOperation, which line 51 turns into a ValueError.
Decimal(value) == DecimalText(lower(replace(strip(value), "_", <<>>)))

IsDecimal(d) == d.kind \in {"finite", "Infinity", "NaN"}

\* Decimal.__eq__: numeric equality; a NaN equals nothing.
FiniteEq(a, b, m) ==
    /\ a.coeff * Pow10(a.exp - m) = b.coeff * Pow10(b.exp - m)
    /\ (a.coeff = 0 \/ a.sign = b.sign)
DecimalEq(a, b) ==
    IF a.kind = "NaN" \/ b.kind = "NaN" THEN FALSE
    ELSE IF a.kind = "Infinity" \/ b.kind = "Infinity"
    THEN a.kind = b.kind /\ a.sign = b.sign
    ELSE FiniteEq(a, b, IF a.exp < b.exp THEN a.exp ELSE b.exp)

\* format(d, '.2f'): two digits after the point, rounded half to even.
HalfEven(q, r, divisor) ==
    IF 2 * r > divisor \/ (2 * r = divisor /\ q % 2 = 1) THEN q + 1 ELSE q
Hundredths(d) ==
    IF d.exp >= -2 THEN d.coeff * Pow10(d.exp + 2)
    ELSE HalfEven(d.coeff \div Pow10(0 - d.exp - 2), d.coeff % Pow10(0 - d.exp - 2),
                  Pow10(0 - d.exp - 2))
FixedPoint(h) ==
    IntToDigits(h \div 100) \o <<".", DigitSeq[((h \div 10) % 10) + 1], DigitSeq[(h % 10) + 1]>>

\* format(d, '.1f'): one digit after the point.
format_1f(d) ==
    (IF d.sign = 1 THEN <<"-">> ELSE <<>>)
    \o (IF d.kind = "Infinity" THEN <<"I", "n", "f", "i", "n", "i", "t", "y">>
        ELSE IF d.kind = "NaN"
        THEN (IF d.signaling THEN <<"s">> ELSE <<>>) \o <<"N", "a", "N">> \o d.payload
        ELSE IntToDigits(HalfEven(Hundredths(d) \div 10, Hundredths(d) % 10, 10) \div 10)
             \o <<".", DigitSeq[(HalfEven(Hundredths(d) \div 10, Hundredths(d) % 10, 10) % 10) + 1]>>)

format_2f(d) ==
    (IF d.sign = 1 THEN <<"-">> ELSE <<>>)
    \o (IF d.kind = "Infinity" THEN <<"I", "n", "f", "i", "n", "i", "t", "y">>
        ELSE IF d.kind = "NaN"
        THEN (IF d.signaling THEN <<"s">> ELSE <<>>) \o <<"N", "a", "N">> \o d.payload
        ELSE FixedPoint(Hundredths(d)))

(***************************************************************************)
(* convert_amount                                                          *)
(***************************************************************************)
\* Disambiguate without the test of line 41: a lone comma is always a thousands separator.
Disambiguate_CommaThousands(a) ==
    IF Contains(a, ",") /\ Contains(a, ".")
    THEN IF rfind(a, ",") > rfind(a, ".")
         THEN replace(replace(a, ".", <<>>), ",", <<".">>)
         ELSE replace(a, ",", <<>>)
    ELSE replace(a, ",", <<>>)

\* Lines 31-46, on the string line 28 leaves: the string handed to Decimal.
Disambiguate(a) ==
    IF Contains(a, ",") /\ Contains(a, ".")
    THEN IF rfind(a, ",") > rfind(a, ".")
         THEN replace(replace(a, ".", <<>>), ",", <<".">>)
         ELSE replace(a, ",", <<>>)
    ELSE IF Contains(a, ",")
    THEN IF Len(a) > 3 /\ a[Len(a) - 2] = ","
         THEN replace(a, ",", <<".">>)
         ELSE replace(a, ",", <<>>)
    ELSE a

\* A Decimal, or ValueError.
convert_amount(str) == Decimal(Disambiguate(strip(replace(str, "$", <<>>))))

(***************************************************************************)
(* datetime.strptime(value, '%Y-%m-%d') and datetime.fromisoformat.        *)
(***************************************************************************)
IsLeap(y) == y % 4 = 0 /\ (y % 100 # 0 \/ y % 400 = 0)
DaysInMonth(y, m) ==
    IF m = 2 THEN (IF IsLeap(y) THEN 29 ELSE 28)
    ELSE IF m \in {4, 6, 9, 11} THEN 30 ELSE 31

\* The constructor's range check: MINYEAR <= year, 1 <= month <= 12, a day of that month.
ValidDate(y, m, d) == y >= 1 /\ m \in 1..12 /\ d >= 1 /\ d <= DaysInMonth(y, m)

\* datetime(y, m, d, hh, mm, ss), or ValueError.
DateTime(y, m, d, hh, mm, ss) ==
    IF ValidDate(y, m, d)
    THEN [kind |-> "datetime", year |-> y, month |-> m, day |-> d,
          hour |-> hh, minute |-> mm, second |-> ss]
    ELSE ValueError

\* _strptime's directives: %Y is \d\d\d\d, %m is 1[0-2]|0[1-9]|[1-9],
\* %d is 3[01]|[12]\d|0[1-9]|[1-9]| [1-9]; the whole string must be consumed.
YearToken(t)  == Len(t) = 4 /\ AllDigits(t)
MonthToken(t) == Len(t) \in 1..2 /\ AllDigits(t) /\ DigitsToInt(t) \in 1..12
DayToken(t) ==
    \/ Len(t) \in 1..2 /\ AllDigits(t) /\ DigitsToInt(t) \in 1..31
    \/ Len(t) = 2 /\ t[1] = " " /\ IsDigit(t[2]) /\ t[2] # "0"

StrptimeParts(parts) ==
    IF /\ Len(parts) = 3
       /\ YearToken(parts[1]) /\ MonthToken(parts[2]) /\ DayToken(parts[3])
    THEN DateTime(DigitsToInt(parts[1]), DigitsToInt(parts[2]),
                  DigitsToInt(strip(parts[3])), 0, 0, 0)
    ELSE ValueError

strptime(value) == StrptimeParts(split(value, "-"))

\* HH, HH:MM or HH:MM:SS: the three numbers, or <<>>.
TimeField(parts, k) == IF k <= Len(parts) THEN DigitsToInt(parts[k]) ELSE 0
TimeOfParts(parts) ==
    IF /\ Len(parts) \in 1..3
       /\ \A k \in 1..Len(parts) : Len(parts[k]) = 2 /\ AllDigits(parts[k])
       /\ TimeField(parts, 1) <= 23 /\ TimeField(parts, 2) <= 59 /\ TimeField(parts, 3) <= 59
    THEN <<TimeField(parts, 1), TimeField(parts, 2), TimeField(parts, 3)>>
    ELSE <<>>

IsoDateShape(value) ==
    /\ Len(value) >= 10
    /\ AllDigits(SubSeq(value, 1, 4)) /\ value[5] = "-"
    /\ AllDigits(SubSeq(value, 6, 7)) /\ value[8] = "-"
    /\ AllDigits(SubSeq(value, 9, 10))

IsoDateTime(value, time) ==
    IF time = <<>> THEN ValueError
    ELSE DateTime(DigitsToInt(SubSeq(value, 1, 4)), DigitsToInt(SubSeq(value, 6, 7)),
                  DigitsToInt(SubSeq(value, 9, 10)), time[1], time[2], time[3])

\* datetime.fromisoformat, for the forms YYYY-MM-DD and YYYY-MM-DD<sep>HH[:MM[:SS]];
\* the week-date, basic (YYYYMMDD), fractional-second and UTC-offset forms are not
\* modelled, and no input of the model has them.
fromisoformat(value) ==
    IF ~IsoDateShape(value) THEN ValueError
    ELSE IF Len(value) = 10 THEN IsoDateTime(value, <<0, 0, 0>>)
    ELSE IF Len(value) > 11
    THEN IsoDateTime(value, TimeOfParts(split(SubSeq(value, 12, Len(value)), ":")))
    ELSE ValueError

(***************************************************************************)
(* infer_column_mapping                                                    *)
(***************************************************************************)
TRANSACTION_DATE == <<"t", "r", "a", "n", "s", "a", "c", "t", "i", "o", "n", "_", "d", "a", "t", "e">>
AMOUNT == <<"a", "m", "o", "u", "n", "t">>
CURRENCY == <<"c", "u", "r", "r", "e", "n", "c", "y">>
STATUS == <<"s", "t", "a", "t", "u", "s">>
DESCRIPTION == <<"d", "e", "s", "c", "r", "i", "p", "t", "i", "o", "n">>
UNKNOWN == <<"u", "n", "k", "n", "o", "w", "n">>
StatusWords == {<<"c", "o", "m", "p", "l", "e", "t", "e", "d">>,
                <<"p", "e", "n", "d", "i", "n", "g">>,
                <<"f", "a", "i", "l", "e", "d">>,
                <<"c", "a", "n", "c", "e", "l", "l", "e", "d">>}

\* r'^\d{4}-\d{2}-\d{2}$' on a stripped string ('$' also matches before a final
\* newline, which strip() has removed).
DateShape(v) ==
    /\ Len(v) = 10
    /\ \A i \in {1, 2, 3, 4, 6, 7, 9, 10} : IsDigit(v[i])
    /\ v[5] = "-" /\ v[8] = "-"
is_date(val) == DateShape(strip(val))

\* r'^[A-Za-z]{3}$' on a stripped string.
CurrencyShape(v) == Len(v) = 3 /\ \A i \in 1..3 : IsAlpha(v[i])
is_currency(val) == CurrencyShape(strip(val))

is_status(val) == lower(strip(val)) \in StatusWords

is_amount(val) == convert_amount(val) # ValueError

\* mapping[i] = field; used.add(field)
Assign(st, i, fld) == [mapping |-> (i :> fld) @@ st.mapping, used |-> st.used \cup {fld}]

\* FirstPassColumn without the "not in used" tests: the last matching column wins.
FirstPassColumn_LastWins(st, i, trimmed) ==
    IF is_date(trimmed) THEN Assign(st, i, TRANSACTION_DATE)
    ELSE IF is_currency(trimmed) THEN Assign(st, i, CURRENCY)
    ELSE IF is_status(trimmed) THEN Assign(st, i, STATUS)
    ELSE st

\* Lines 98-107 for column i (Python's index, from 0).
FirstPassColumn(st, i, trimmed) ==
    IF is_date(trimmed) /\ TRANSACTION_DATE \notin st.used
    THEN Assign(st, i, TRANSACTION_DATE)
    ELSE IF is_currency(trimmed) /\ CURRENCY \notin st.used
    THEN Assign(st, i, CURRENCY)
    ELSE IF is_status(trimmed) /\ STATUS \notin st.used
    THEN Assign(st, i, STATUS)
    ELSE st

\* Lines 97-107, from column i.
RECURSIVE FirstPass(_, _, _)
FirstPass(r, i, st) ==
    IF i >= Len(r) THEN st
    ELSE FirstPass(r, i + 1, FirstPassColumn(st, i, strip(r[i + 1])))

\* Lines 111-115 for column i.
SecondPassColumn(st, i, value) ==
    IF i \in DOMAIN st.mapping THEN st
    ELSE IF is_amount(value) /\ AMOUNT \notin st.used
    THEN Assign(st, i, AMOUNT)
    ELSE st

\* Lines 110-115, from column i.
RECURSIVE SecondPass(_, _, _)
SecondPass(r, i, st) ==
    IF i >= Len(r) THEN st
    ELSE SecondPass(r, i + 1, SecondPassColumn(st, i, r[i + 1]))

\* Lines 119-125 for column i.
ThirdPassColumn(st, i) ==
    IF i \in DOMAIN st.mapping THEN st
    ELSE IF DESCRIPTION \notin st.used
    THEN Assign(st, i, DESCRIPTION)
    ELSE [st EXCEPT !.mapping = (i :> UNKNOWN) @@ st.mapping]

\* Lines 118-125, from column i.
RECURSIVE ThirdPass(_, _, _)
ThirdPass(r, i, st) ==
    IF i >= Len(r) THEN st
    ELSE ThirdPass(r, i + 1, ThirdPassColumn(st, i))

Required == {TRANSACTION_DATE, DESCRIPTION, AMOUNT, CURRENCY, STATUS}
EmptyMapping == [i \in {} |-> UNKNOWN]

\* Verify without lines 129-131: the mapping is returned whatever it covers.
Verify_Unchecked(st) == [kind |-> "mapping", map |-> st.mapping]

\* Lines 128-133: the mapping, or ValueError when a required field was not found.
Verify(st) ==
    IF Required \subseteq st.used THEN [kind |-> "mapping", map |-> st.mapping]
    ELSE ValueError

infer_column_mapping(r) ==
    Verify(ThirdPass(r, 0, SecondPass(r, 0,
           FirstPass(r, 0, [mapping |-> EmptyMapping, used |-> {}]))))

(***************************************************************************)
(* normalize_row                                                           *)
(***************************************************************************)
\* dict(zip(headers, row)): a later column replaces an earlier one of the same name.
Min(a, b) == IF a < b THEN a ELSE b
ZipDict(hs, r, n) ==
    [k \in {hs[i] : i \in 1..n} |->
        r[CHOOSE i \in 1..n : hs[i] = k /\ \A j \in (i + 1)..n : hs[j] # k]]
zip_dict(hs, r) == ZipDict(hs, r, Min(Len(hs), Len(r)))

\* try: a, except ValueError: b
TryExcept(a, b) == IF a # ValueError THEN a ELSE b

\* NormalizeValue keeping the text of a date that does not parse, instead of raising.
NormalizeValue_KeepsBadDate(key, value) ==
    IF key = TRANSACTION_DATE
    THEN TryExcept(TryExcept(strptime(value), fromisoformat(value)), Str(value))
    ELSE IF key = AMOUNT THEN convert_amount(value)
    ELSE IF key = STATUS THEN Str(lower(value))
    ELSE Str(value)

\* Lines 146-156 for one key, on the stripped value.
NormalizeValue(key, value) ==
    IF key = TRANSACTION_DATE THEN TryExcept(strptime(value), fromisoformat(value))
    ELSE IF key = AMOUNT THEN convert_amount(value)
    ELSE IF key = STATUS THEN Str(lower(value))
    ELSE Str(value)

\* An exception of any key leaves normalize_row.
Normalized(normalized) ==
    IF \E k \in DOMAIN normalized : normalized[k] = ValueError THEN ValueError
    ELSE [kind |-> "dict", fields |-> normalized]

\* normalize_row without the else branch of lines 155-156: the other fields are lost.
normalize_row_NoElse(row_dict) ==
    Normalized([k \in DOMAIN row_dict \cap {TRANSACTION_DATE, AMOUNT, STATUS} |->
                   NormalizeValue(k, strip(row_dict[k]))])

\* The normalized dict, or ValueError when a date or an amount does not parse.
normalize_row(row_dict) ==
    Normalized([k \in DOMAIN row_dict |-> NormalizeValue(k, strip(row_dict[k]))])

(***************************************************************************)
(* Inputs.                                                                 *)
(***************************************************************************)
HeaderAlphabet == {"A", "U", "b", "_"}
HeaderTokens ==
    StringsUpTo(HeaderAlphabet, MaxHeaderLen)
    \cup {<<"T", "r", "a", "n", "s", "a", "c", "t", "i", "o", "n", "D", "a", "t", "e">>,
          <<"A", "m", "o", "u", "n", "t", "_", "U", "S", "D">>}

AmountAlphabet == {"0", "1", "5", ",", ".", "$", " "}
AmountStrings ==
    StringsUpTo(AmountAlphabet, MaxAmountLen)
    \cup {<<"$", "1", ",", "2", "3", "4", ".", "5", "6">>,
          <<"1", ".", "2", "3", "4", ",", "5", "6">>,
          <<"1", ",", "2", "3">>,
          <<"1", ",", "2", "3", "4">>,
          <<"1", "2", ".", "5">>,
          <<"a", "b", "c">>,
          <<"N", "a", "N">>,
          <<"i", "n", "f">>}

\* Cells of a sample row: a date, a string of a date's shape that is no calendar date,
\* two three-letter strings (one of them a Decimal literal), a status, free text, an amount.
CellDate == <<"2", "0", "2", "3", "-", "0", "1", "-", "0", "5">>
CellNoDate == <<"2", "0", "2", "3", "-", "1", "3", "-", "4", "5">>
CellUSD == <<"U", "S", "D">>
CellNaN == <<"N", "a", "N">>
CellStatus == <<"c", "o", "m", "p", "l", "e", "t", "e", "d">>
CellText == <<"C", "o", "f", "f", "e", "e", " ", "s", "h", "o", "p">>
CellAmount == <<"$", "1", "2", ".", "5", "0">>
CellPool == {CellDate, CellNoDate, CellUSD, CellNaN, CellStatus, CellText, CellAmount}
\* The row of the specification's example, and every row made of it by one more cell.
ExampleRow == <<CellDate, CellUSD, CellStatus, CellText, CellAmount>>
InsertAt(r, k, c) == SubSeq(r, 1, k) \o <<c>> \o SubSeq(r, k + 1, Len(r))
SampleRows ==
    StringsUpTo(CellPool, MaxCols)
    \cup {InsertAt(ExampleRow, k, c) : k \in 0..Len(ExampleRow), c \in CellPool}

\* The rows csv.reader yields for a file (a blank line yields the empty list); the
\* delimiter detection and the quoting rules of csv are not modelled.
RowHeader ==
    <<<<"T", "r", "a", "n", "s", "a", "c", "t", "i", "o", "n", "D", "a", "t", "e">>,
      <<"C", "u", "r", "r", "e", "n", "c", "y">>,
      <<"S", "t", "a", "t", "u", "s">>,
      <<"D", "e", "s", "c", "r", "i", "p", "t", "i", "o", "n">>,
      <<"A", "m", "o", "u", "n", "t">>>>
RowGood ==
    <<<<"2", "0", "2", "3", "-", "0", "1", "-", "0", "5">>,
      <<"U", "S", "D">>,
      <<"c", "o", "m", "p", "l", "e", "t", "e", "d">>,
      <<"C", "o", "f", "f", "e", "e", " ", "s", "h", "o", "p">>,
      <<"$", "1", "2", ".", "5", "0">>>>
RowIso ==
    <<<<" ", "2", "0", "2", "4", "-", "0", "2", "-", "2", "9", "T", "1", "0", ":", "3", "0">>,
      <<"E", "U", "R">>,
      <<" ", "P", "E", "N", "D", "I", "N", "G", " ">>,
      <<"x", " ">>,
      <<"1", ".", "2", "3", "4", ",", "5", "6">>>>
RowEmpty == <<>>
RowShort ==
    <<<<"h", "e", "l", "l", "o">>,
      <<"1", ",", "2", "3">>>>
RowBadAmount ==
    <<<<"2", "0", "2", "3", "-", "0", "1", "-", "0", "5">>,
      <<"U", "S", "D">>,
      <<"f", "a", "i", "l", "e", "d">>,
      <<"x">>,
      <<"a", "b", "c">>>>
RowBadDate ==
    <<<<"2", "0", "2", "3", "-", "1", "3", "-", "4", "5">>,
      <<"U", "S", "D">>,
      <<"f", "a", "i", "l", "e", "d">>,
      <<"x">>,
      <<"1", ",", "2", "3">>>>
RowPool == {RowHeader, RowGood, RowIso, RowEmpty, RowShort, RowBadAmount, RowBadDate}
Files == StringsUpTo(RowPool, MaxRows)

\* The column_mapping argument: None, a mapping of five columns, a mapping of two.
FullMapping ==
    [kind |-> "mapping",
     map |-> (0 :> TRANSACTION_DATE) @@ (1 :> CURRENCY) @@ (2 :> STATUS)
             @@ (3 :> DESCRIPTION) @@ (4 :> AMOUNT)]
PartialMapping ==
    [kind |-> "mapping", map |-> (0 :> DESCRIPTION) @@ (1 :> AMOUNT)]
ColumnMappings == {None, FullMapping, PartialMapping}

(***************************************************************************)
(* The state machines.                                                     *)
(***************************************************************************)
IdleSnake  == s = <<>> /\ snake = NotYet
IdleAmount == amount_str = <<>> /\ amount = NotYet /\ formatted = NotYet /\ reparsed = NotYet
IdleInfer  == row = <<>> /\ inferred = NotYet /\ first = NotYet
IdleCsv    == /\ file = <<>> /\ has_header = TRUE /\ column_mapping = None
              /\ pc = "idle" /\ pos = 0 /\ headers = <<>> /\ mapping = NotYet
              /\ normalized_data = <<>> /\ warnings = <<>> /\ result = NotYet

\* headers = [snake_case(header) for header in headers], one header at a time.
InitSnake ==
    /\ s \in HeaderTokens /\ snake = NotYet
    /\ IdleAmount /\ IdleInfer /\ IdleCsv

SnakeCase ==
    /\ snake = NotYet
    /\ snake' = Str(snake_case(s))
    /\ UNCHANGED <<s, amountVars, inferVars, csvVars>>

SpecSnake == InitSnake /\ [][SnakeCase]_vars

\* convert_amount on a string, print_readable_data's f"{amount:.2f}" on the result,
\* and convert_amount on that text.
InitAmount ==
    /\ amount_str \in AmountStrings
    /\ amount = NotYet /\ formatted = NotYet /\ reparsed = NotYet
    /\ IdleSnake /\ IdleInfer /\ IdleCsv

ConvertAmount ==
    /\ amount = NotYet
    /\ amount' = convert_amount(amount_str)
    /\ UNCHANGED <<amount_str, formatted, reparsed, snakeVars, inferVars, csvVars>>

\* print_readable_data, lines 218-219: isinstance(amount, Decimal).
FormatAmount ==
    /\ IsDecimal(amount) /\ formatted = NotYet
    /\ formatted' = Str(format_2f(amount))
    /\ UNCHANGED <<amount_str, amount, reparsed, snakeVars, inferVars, csvVars>>

ReparseAmount ==
    /\ formatted # NotYet /\ reparsed = NotYet
    /\ reparsed' = convert_amount(formatted.val)
    /\ UNCHANGED <<amount_str, amount, formatted, snakeVars, inferVars, csvVars>>

NextAmount == ConvertAmount \/ FormatAmount \/ ReparseAmount
SpecAmount == InitAmount /\ [][NextAmount]_vars

\* Line 188: headers = [mapping[i] for i in range(len(first_row))]; KeyError when the
\* mapping has no entry for a column.
headers_of(m, first_row) ==
    IF \A i \in 0..(Len(first_row) - 1) : i \in DOMAIN m
    THEN [kind |-> "list", val |-> [i \in 1..Len(first_row) |-> m[i - 1]]]
    ELSE KeyError

\* infer_column_mapping on a sample row, then lines 188-190 of process_csv on it.
InitInfer ==
    /\ row \in SampleRows /\ inferred = NotYet /\ first = NotYet
    /\ IdleSnake /\ IdleAmount /\ IdleCsv

InferColumnMapping ==
    /\ inferred = NotYet
    /\ inferred' = infer_column_mapping(row)
    /\ UNCHANGED <<row, first, snakeVars, amountVars, csvVars>>

NormalizeFirstRow ==
    /\ inferred.kind = "mapping" /\ first = NotYet
    /\ first' = normalize_row(zip_dict(headers_of(inferred.map, row).val, row))
    /\ UNCHANGED <<row, inferred, snakeVars, amountVars, csvVars>>

NextInfer == InferColumnMapping \/ NormalizeFirstRow
SpecInfer == InitInfer /\ [][NextInfer]_vars

(***************************************************************************)
(* process_csv                                                             *)
(***************************************************************************)
Init ==
    /\ file \in Files /\ has_header \in BOOLEAN /\ column_mapping \in ColumnMappings
    /\ pc = "start" /\ pos = 0 /\ headers = <<>> /\ mapping = NotYet
    /\ normalized_data = <<>> /\ warnings = <<>> /\ result = NotYet
    /\ IdleSnake /\ IdleAmount /\ IdleInfer

\* The exception leaves process_csv: nothing is returned.
Raise(e) == pc' = "raised" /\ result' = e

\* Lines 178 and 182: next(reader) on a file without rows.
NoFirstRow ==
    /\ pc = "start" /\ file = <<>>
    /\ Raise(StopIteration)
    /\ UNCHANGED <<file, has_header, column_mapping, pos, headers, mapping,
                   normalized_data, warnings, snakeVars, amountVars, inferVars>>

\* Lines 177-179.
ReadHeader ==
    /\ pc = "start" /\ file # <<>> /\ has_header
    /\ headers' = [i \in 1..Len(file[1]) |-> snake_case(file[1][i])]
    /\ pos' = 1 /\ pc' = "rows"
    /\ UNCHANGED <<file, has_header, column_mapping, mapping, normalized_data,
                   warnings, result, snakeVars, amountVars, inferVars>>

\* Lines 183-186: the mapping used for a headerless file, or ValueError.
first_mapping(cm, first_row) ==
    IF cm = None THEN infer_column_mapping(first_row) ELSE cm
\* Line 188: the headers, or the exception raised before they are built.
first_headers(m, first_row) ==
    IF m = ValueError THEN ValueError ELSE headers_of(m.map, first_row)
\* Line 190: the first row normalized, or the exception raised before that or by it.
first_record(hs, first_row) ==
    IF hs.kind = "list" THEN normalize_row(zip_dict(hs.val, first_row)) ELSE hs
\* Lines 183-190: what they leave in mapping and headers, and the record or exception.
FirstRowHeaders(m, hs, first_row) ==
    [mapping |-> m, headers |-> hs, record |-> first_record(hs, first_row)]
FirstRowMapping(m, first_row) == FirstRowHeaders(m, first_headers(m, first_row), first_row)
FirstRow(cm, first_row) == FirstRowMapping(first_mapping(cm, first_row), first_row)

\* Lines 180-190; the exception of infer_column_mapping, of mapping[i] or of
\* normalize_row leaves process_csv.
ReadFirstRow ==
    /\ pc = "start" /\ file # <<>> /\ ~has_header
    /\ \E f \in {FirstRow(column_mapping, file[1])} :
          /\ pos' = 1
          /\ mapping' = IF f.mapping = ValueError THEN mapping ELSE f.mapping
          /\ headers' = IF f.headers.kind = "list" THEN f.headers.val ELSE headers
          /\ IF f.record.kind = "dict"
             THEN /\ normalized_data' = Append(normalized_data, f.record)
                  /\ pc' = "rows" /\ UNCHANGED result
             ELSE /\ Raise(f.record) /\ UNCHANGED normalized_data
    /\ UNCHANGED <<file, has_header, column_mapping, warnings,
                   snakeVars, amountVars, inferVars>>

\* Lines 192-194.
SkipEmptyRow ==
    /\ pc = "rows" /\ pos < Len(file)
    /\ file[pos + 1] = <<>>
    /\ pos' = pos + 1
    /\ UNCHANGED <<file, has_header, column_mapping, pc, headers, mapping,
                   normalized_data, warnings, result, snakeVars, amountVars, inferVars>>

\* Lines 195-197.
SkipMismatchedRow ==
    /\ pc = "rows" /\ pos < Len(file)
    /\ file[pos + 1] # <<>> /\ Len(file[pos + 1]) # Len(headers)
    /\ pos' = pos + 1
    /\ warnings' = Append(warnings, file[pos + 1])
    /\ UNCHANGED <<file, has_header, column_mapping, pc, headers, mapping,
                   normalized_data, result, snakeVars, amountVars, inferVars>>

\* NormalizeRow putting the record in front of the list instead of at its end.
NormalizeRow_Prepends ==
    /\ pc = "rows" /\ pos < Len(file)
    /\ file[pos + 1] # <<>> /\ Len(file[pos + 1]) = Len(headers)
    /\ pos' = pos + 1
    /\ \E rec \in {normalize_row(zip_dict(headers, file[pos + 1]))} :
          IF rec.kind = "dict"
          THEN /\ normalized_data' = <<rec>> \o normalized_data
               /\ UNCHANGED <<pc, result>>
          ELSE /\ Raise(rec) /\ UNCHANGED normalized_data
    /\ UNCHANGED <<file, has_header, column_mapping, headers, mapping, warnings,
                   snakeVars, amountVars, inferVars>>

\* NormalizeRow treating a row that does not normalize like a row of the wrong width:
\* a warning, and the loop goes on.
NormalizeRow_SkipsOnError ==
    /\ pc = "rows" /\ pos < Len(file)
    /\ file[pos + 1] # <<>> /\ Len(file[pos + 1]) = Len(headers)
    /\ pos' = pos + 1
    /\ \E rec \in {normalize_row(zip_dict(headers, file[pos + 1]))} :
          IF rec.kind = "dict"
          THEN /\ normalized_data' = Append(normalized_data, rec)
               /\ UNCHANGED warnings
          ELSE /\ warnings' = Append(warnings, file[pos + 1])
               /\ UNCHANGED normalized_data
    /\ UNCHANGED <<file, has_header, column_mapping, pc, result, headers, mapping,
                   snakeVars, amountVars, inferVars>>

\* Lines 198-199; the exception of normalize_row leaves process_csv.
NormalizeRow ==
    /\ pc = "rows" /\ pos < Len(file)
    /\ file[pos + 1] # <<>> /\ Len(file[pos + 1]) = Len(headers)
    /\ pos' = pos + 1
    /\ \E rec \in {normalize_row(zip_dict(headers, file[pos + 1]))} :
          IF rec.kind = "dict"
          THEN /\ normalized_data' = Append(normalized_data, rec)
               /\ UNCHANGED <<pc, result>>
          ELSE /\ Raise(rec) /\ UNCHANGED normalized_data
    /\ UNCHANGED <<file, has_header, column_mapping, headers, mapping, warnings,
                   snakeVars, amountVars, inferVars>>

\* Line 200.
Return ==
    /\ pc = "rows" /\ pos = Len(file)
    /\ pc' = "done" /\ result' = [kind |-> "list", val |-> normalized_data]
    /\ UNCHANGED <<file, has_header, column_mapping, pos, headers, mapping,
                   normalized_data, warnings, snakeVars, amountVars, inferVars>>

Next ==
    \/ NoFirstRow \/ ReadHeader \/ ReadFirstRow
    \/ SkipEmptyRow \/ SkipMismatchedRow \/ NormalizeRow \/ Return
Spec == Init /\ [][Next]_vars

(***************************************************************************)
(* Properties of snake_case (SpecSnake).                                   *)
(***************************************************************************)
Separators == {"_"}
AllLowerCase(str) == \A i \in 1..Len(str) : ~IsUpper(str[i])
NoDoubleSeparator(str) ==
    \A i \in 1..(Len(str) - 1) : ~(str[i] \in Separators /\ str[i + 1] \in Separators)

\* C5: snake_case maps "TransactionDate" to "transaction_date" and "Amount_USD" to
\* "amount_usd", and for every header token its result is all lower case and has no
\* two adjacent separator characters.
C5_HeaderCanonical ==
    snake # NotYet =>
        /\ s = <<"T", "r", "a", "n", "s", "a", "c", "t", "i", "o", "n", "D", "a", "t", "e">>
              => snake.val = <<"t", "r", "a", "n", "s", "a", "c", "t", "i", "o", "n", "_", "d", "a", "t", "e">>
        /\ s = <<"A", "m", "o", "u", "n", "t", "_", "U", "S", "D">> => snake.val = <<"a", "m", "o", "u", "n", "t", "_", "u", "s", "d">>
        /\ AllLowerCase(snake.val)
        /\ NoDoubleSeparator(snake.val)

\* The part of C5 that the code keeps: "TransactionDate", lower case, single separators.
C5_LowerCaseSingleSeparators ==
    snake # NotYet =>
        /\ s = <<"T", "r", "a", "n", "s", "a", "c", "t", "i", "o", "n", "D", "a", "t", "e">>
              => snake.val = <<"t", "r", "a", "n", "s", "a", "c", "t", "i", "o", "n", "_", "d", "a", "t", "e">>
        /\ AllLowerCase(snake.val)
        /\ NoDoubleSeparator(snake.val)

(***************************************************************************)
(* Properties of convert_amount (SpecAmount).                              *)
(***************************************************************************)
\* A value with no digit past the second after the decimal point.
WholeHundredths(d) ==
    d.kind = "finite" /\ (d.exp >= -2 \/ d.coeff % Pow10(0 - d.exp - 2) = 0)

\* C6, as stated: for every string convert_amount accepts, the two-decimal text of the
\* value parses again to a numerically equal value.
C6_RoundTrip ==
    reparsed # NotYet => IsDecimal(reparsed) /\ DecimalEq(reparsed, amount)

\* C6, amended: for every accepted string whose value is a number or an infinity with
\* at most two digits after the decimal point, the two-decimal text of the value parses
\* again to a numerically equal value.
C6_RoundTripTwoDecimals ==
    (reparsed # NotYet /\ (WholeHundredths(amount) \/ amount.kind = "Infinity"))
        => IsDecimal(reparsed) /\ DecimalEq(reparsed, amount)

\* C6's case: a value with two decimals, the second of them not zero, went around.
C6_Witness ==
    /\ reparsed # NotYet /\ amount.kind = "finite"
    /\ amount.exp = -2 /\ amount.coeff % 10 # 0 /\ amount.coeff > 100
    /\ Contains(amount_str, ",")

\* The disambiguation as the specification words it, on the string without its
\* currency symbol and surrounding whitespace.
Without(str, c) == SelectSeq(str, LAMBDA x : x # c)
Swap(str, c, d) == [i \in 1..Len(str) |-> IF str[i] = c THEN d ELSE str[i]]
Places(str, c) == {i \in 1..Len(str) : str[i] = c}
Last(str, c) == CHOOSE i \in Places(str, c) : \A j \in Places(str, c) : j <= i
Trimmed(str) ==
    IF \A i \in 1..Len(str) : str[i] \in Whitespace THEN <<>>
    ELSE SubSeq(str,
                CHOOSE i \in 1..Len(str) :
                    str[i] \notin Whitespace /\ \A j \in 1..(i - 1) : str[j] \in Whitespace,
                CHOOSE i \in 1..Len(str) :
                    str[i] \notin Whitespace /\ \A j \in (i + 1)..Len(str) : str[j] \in Whitespace)
SpecSeparators(a) ==
    IF Places(a, ",") # {} /\ Places(a, ".") # {}
    THEN IF Last(a, ",") > Last(a, ".") THEN Swap(Without(a, "."), ",", ".")
         ELSE Without(a, ",")
    ELSE IF Places(a, ",") # {}
    THEN IF Len(a) > 3 /\ a[Len(a) - 2] = "," THEN Swap(a, ",", ".") ELSE Without(a, ",")
    ELSE a
SpecDisambiguated(str) == SpecSeparators(Trimmed(Without(str, "$")))

\* A decimal literal: digits with at most one point and at least one digit, then
\* possibly an exponent; or an infinity or a NaN; a sign before it, whitespace around it.
ExponentText(x) ==
    \/ x = <<>>
    \/ /\ Len(x) >= 2 /\ x[1] = "e"
       /\ \E k \in 2..3 :
             /\ k <= Len(x)
             /\ (k = 3 => x[2] \in {"+", "-"})
             /\ \A i \in k..Len(x) : IsDigit(x[i])
MantissaText(x) ==
    /\ \A i \in 1..Len(x) : IsDigit(x[i]) \/ x[i] = "."
    /\ Cardinality(Places(x, ".")) <= 1
    /\ \E i \in 1..Len(x) : IsDigit(x[i])
UnsignedLiteral(x) ==
    \/ \E m \in 0..Len(x) : MantissaText(SubSeq(x, 1, m)) /\ ExponentText(SubSeq(x, m + 1, Len(x)))
    \/ x \in {INF, INFINITY}
    \/ \E k \in 3..4 :
          /\ k <= Len(x) /\ SubSeq(x, k - 2, k) = NAN /\ (k = 4 => x[1] = "s")
          /\ \A i \in (k + 1)..Len(x) : IsDigit(x[i])
SignedLiteral(x) ==
    IF x # <<>> /\ x[1] \in {"+", "-"} THEN UnsignedLiteral(Tail(x)) ELSE UnsignedLiteral(x)
ValidDecimalLiteral(str) == SignedLiteral(lower(Without(Trimmed(str), "_")))

Number(coeff, exp) == [kind |-> "finite", sign |-> 0, coeff |-> coeff, exp |-> exp]

\* C7: convert_amount parses exactly the string of the specification's disambiguation
\* (both separators: the rightmost is the decimal point and the other is removed; a
\* lone comma is the decimal point iff the string is longer than 3 and its
\* third-from-last character is the comma, and is removed otherwise; a lone point is
\* kept), and raises iff that string is no decimal literal; "1,23" is 1.23, "1,234"
\* is 1234, "1.234,56" and "$1,234.56" are 1234.56.
C7_Disambiguation ==
    amount # NotYet =>
        /\ amount = Decimal(SpecDisambiguated(amount_str))
        /\ amount = ValueError <=> ~ValidDecimalLiteral(SpecDisambiguated(amount_str))
        /\ amount_str = <<"1", ",", "2", "3">> => amount = Number(123, -2)
        /\ amount_str = <<"1", ",", "2", "3", "4">> => amount = Number(1234, 0)
        /\ amount_str = <<"1", ".", "2", "3", "4", ",", "5", "6">> => amount = Number(123456, -2)
        /\ amount_str = <<"$", "1", ",", "2", "3", "4", ".", "5", "6">> => amount = Number(123456, -2)

\* C7's case: a lone comma before exactly two final digits was read as the decimal point.
C7_Witness ==
    /\ amount # NotYet /\ amount.kind = "finite" /\ amount.exp = -2
    /\ Places(amount_str, ",") # {} /\ Places(amount_str, ".") = {}
    /\ Len(amount_str) > 3

(***************************************************************************)
(* Properties of infer_column_mapping (SpecInfer).                         *)
(***************************************************************************)
Indices(r) == 0..(Len(r) - 1)
IndicesOf(map, fld) == {i \in DOMAIN map : map[i] = fld}
\* Column i satisfies the predicate and no column left of it does.
Leftmost(P(_), r, i) == P(r[i + 1]) /\ \A j \in 0..(i - 1) : ~P(r[j + 1])
\* Pass 1 gives column i a field: the three predicates exclude each other (ten
\* characters, three letters, a status word), so each field goes to its leftmost match.
AssignedByPass1(r, i) ==
    Leftmost(is_date, r, i) \/ Leftmost(is_currency, r, i) \/ Leftmost(is_status, r, i)
AmountCandidates(r) == {i \in Indices(r) : ~AssignedByPass1(r, i) /\ is_amount(r[i + 1])}
WellFormedMapping(map, r) ==
    /\ DOMAIN map = Indices(r)
    /\ \A fld \in Required : Cardinality(IndicesOf(map, fld)) = 1
    /\ \A i \in DOMAIN map : map[i] \in Required \cup {UNKNOWN}

\* C1: infer_column_mapping raises or returns a mapping with an entry for every index
\* 0..len(row)-1 in which exactly one index maps to each of transaction_date, amount,
\* currency, status and description and every other index maps to unknown; it raises
\* whenever no column left unassigned by pass 1 satisfies is_amount.
C1_MappingWellFormedOrRaises ==
    inferred # NotYet =>
        /\ inferred = ValueError \/ WellFormedMapping(inferred.map, row)
        /\ AmountCandidates(row) = {} => inferred = ValueError

\* C1's case: a mapping was returned for a row of more than five columns, one unknown.
C1_Witness ==
    /\ inferred.kind = "mapping"
    /\ Len(row) > Cardinality(Required)
    /\ IndicesOf(inferred.map, UNKNOWN) # {}

\* Every index the mapping gives the field is the smallest index among the candidates.
SmallestOf(map, fld, candidates) ==
    \A i \in IndicesOf(map, fld) : i \in candidates /\ \A j \in candidates : i <= j
Matching(P(_), r) == {i \in Indices(r) : P(r[i + 1])}
AfterPasses1And2(map) == IndicesOf(map, DESCRIPTION) \cup IndicesOf(map, UNKNOWN)
ExampleMapping ==
    (0 :> TRANSACTION_DATE) @@ (1 :> CURRENCY) @@ (2 :> STATUS) @@ (3 :> DESCRIPTION)
    @@ (4 :> AMOUNT)

\* C9, as stated: whenever the mapping is returned, the index of each of
\* transaction_date, currency, status and amount is the smallest index whose value
\* satisfies the field's predicate, description is the smallest index left unassigned
\* after passes 1 and 2, and the example row maps 0, 1, 2, 4, 3 to transaction_date,
\* currency, status, amount, description.
C9_LeftmostWins ==
    inferred.kind = "mapping" =>
        /\ SmallestOf(inferred.map, TRANSACTION_DATE, Matching(is_date, row))
        /\ SmallestOf(inferred.map, CURRENCY, Matching(is_currency, row))
        /\ SmallestOf(inferred.map, STATUS, Matching(is_status, row))
        /\ SmallestOf(inferred.map, AMOUNT, Matching(is_amount, row))
        /\ SmallestOf(inferred.map, DESCRIPTION, AfterPasses1And2(inferred.map))
        /\ row = ExampleRow => inferred.map = ExampleMapping

\* C9, amended: whenever the mapping is returned, the index of each of
\* transaction_date, currency and status is the smallest index whose value satisfies
\* the field's predicate, the index of amount is the smallest index that pass 1 left
\* unassigned and whose value satisfies is_amount, description is the smallest index
\* left unassigned after passes 1 and 2, and the example row maps as stated.
C9_LeftmostUnassignedWins ==
    inferred.kind = "mapping" =>
        /\ SmallestOf(inferred.map, TRANSACTION_DATE, Matching(is_date, row))
        /\ SmallestOf(inferred.map, CURRENCY, Matching(is_currency, row))
        /\ SmallestOf(inferred.map, STATUS, Matching(is_status, row))
        /\ SmallestOf(inferred.map, AMOUNT, AmountCandidates(row))
        /\ SmallestOf(inferred.map, DESCRIPTION, AfterPasses1And2(inferred.map))
        /\ row = ExampleRow => inferred.map = ExampleMapping

\* C9's case: a mapping was returned for a row in which a field was contested.
C9_Witness ==
    /\ inferred.kind = "mapping"
    /\ Cardinality(Matching(is_currency, row)) > 1
    /\ Cardinality(AmountCandidates(row)) > 1

\* The text is a day of the calendar written YYYY-MM-DD.
CalendarDate(v) ==
    /\ DateShape(v)
    /\ ValidDate(DigitsToInt(SubSeq(v, 1, 4)), DigitsToInt(SubSeq(v, 6, 7)),
                 DigitsToInt(SubSeq(v, 9, 10)))
ColumnOf(map, fld) == CHOOSE i \in DOMAIN map : map[i] = fld

\* C10, as stated: whenever infer_column_mapping succeeds on the first row, normalizing
\* that row with the inferred mapping does not fail.
C10_FirstRowNormalizes ==
    first # NotYet => first.kind = "dict"

\* C10, amended: whenever infer_column_mapping succeeds on the first row, the column
\* classified as amount parses as an amount, and normalizing the row with the inferred
\* mapping fails exactly when the column classified as transaction_date, which matched
\* only the pattern of digits, is not a day of the calendar.
C10_FirstRowNormalizesIffCalendarDate ==
    first # NotYet =>
        /\ convert_amount(strip(row[ColumnOf(inferred.map, AMOUNT) + 1])) # ValueError
        /\ first.kind = "dict"
              <=> CalendarDate(strip(row[ColumnOf(inferred.map, TRANSACTION_DATE) + 1]))
        /\ first.kind = "dict" =>
              /\ first.fields[AMOUNT]
                    = convert_amount(strip(row[ColumnOf(inferred.map, AMOUNT) + 1]))
              /\ first.fields[TRANSACTION_DATE].kind = "datetime"

\* C10's case: the first row of the inference became a record with a date and a number.
C10_Witness ==
    /\ first.kind = "dict"
    /\ first.fields[AMOUNT].kind = "finite"
    /\ first.fields[TRANSACTION_DATE].kind = "datetime"
    /\ IndicesOf(inferred.map, UNKNOWN) # {}

(***************************************************************************)
(* Properties of process_csv (Spec), stated on its arguments: the rows of  *)
(* the file, has_header and column_mapping.                                *)
(***************************************************************************)
Range(f) == {f[x] : x \in DOMAIN f}
\* The mapping of a headerless file, and the header names fixed by the first row.
FileMapping ==
    IF column_mapping = None THEN infer_column_mapping(file[1]) ELSE column_mapping
FileHeaders ==
    IF has_header THEN [i \in 1..Len(file[1]) |-> snake_case(file[1][i])]
    ELSE [i \in 1..Len(file[1]) |-> FileMapping.map[i - 1]]
RecordOf(r) == normalize_row(zip_dict(FileHeaders, r))
IsEmptyRow(r) == r = <<>>
IsMismatchedRow(r) == r # <<>> /\ Len(r) # Len(FileHeaders)
IsDataRow(r) == r # <<>> /\ Len(r) = Len(FileHeaders)
\* The first row of a headerless file stops the run: no mapping, a column the mapping
\* does not have, or a date or an amount that does not parse.
FirstRowFatal ==
    /\ ~has_header
    /\ \/ FileMapping = ValueError
       \/ ~(Indices(file[1]) \subseteq DOMAIN FileMapping.map)
       \/ RecordOf(file[1]) = ValueError
\* Row k of the file (from 1) stops the run.
FatalRow(k) ==
    IF k = 1 THEN FirstRowFatal ELSE IsDataRow(file[k]) /\ RecordOf(file[k]) = ValueError
RecordsOf(rows) == [i \in 1..Len(rows) |-> RecordOf(rows[i])]
\* The records of rows 1..k of the file, in the order of the rows.
RecordsUpTo(k) ==
    (IF has_header THEN <<>> ELSE <<RecordOf(file[1])>>)
    \o RecordsOf(SelectSeq(SubSeq(file, 2, k), IsDataRow))
IsException(v) == v \in {ValueError, KeyError, StopIteration}

\* C2: when process_csv returns, its list is exactly, in the order of the file, the
\* record of the first row (headerless files only) followed by the record of every
\* later row that is not empty and has as many columns as there are headers; empty and
\* mismatched rows are omitted, and each record is that of its own row alone.
C2_OutputIsOrderedNormalization ==
    pc = "done" =>
        /\ result = [kind |-> "list", val |-> RecordsUpTo(Len(file))]
        /\ \A i \in 1..Len(result.val) : result.val[i].kind = "dict"

\* C2's case: a headerless file returned its first row and a later one, and a
\* mismatched row between or after them was left out.
C2_Witness ==
    /\ pc = "done" /\ ~has_header
    /\ Len(result.val) = 2 /\ result.val[1] # result.val[2]
    /\ Len(warnings) = 1

\* C3: when the inference fails or normalize_row fails on a row of the right width,
\* process_csv raises at that row: the error is its only result, no list is returned
\* (not the records made so far either), and no later row is processed; the run goes
\* past a row only when the row is empty, mismatched (the warning) or was normalized.
C3_FailureAbortsWholeFile ==
    /\ pc = "raised" =>
          /\ IsException(result)
          /\ file = <<>> \/
                /\ pos >= 1 /\ FatalRow(pos) /\ \A k \in 1..(pos - 1) : ~FatalRow(k)
                /\ pos > 1 => /\ normalized_data = RecordsUpTo(pos - 1)
                              /\ warnings = SelectSeq(SubSeq(file, 2, pos - 1), IsMismatchedRow)
                /\ pos = 1 => normalized_data = <<>> /\ warnings = <<>>
    /\ pc \in {"rows", "done"} =>
          /\ \A k \in 1..pos : ~FatalRow(k)
          /\ normalized_data = RecordsUpTo(pos)
          /\ warnings = SelectSeq(SubSeq(file, 2, pos), IsMismatchedRow)
    /\ pc = "done" <=> result.kind = "list"
    /\ pc = "done" => pos = Len(file)

\* C3's case: a later row of a file failed to normalize after a record had been made
\* and with a row still unread.
C3_Witness ==
    /\ pc = "raised" /\ result = ValueError
    /\ pos > 1 /\ pos < Len(file)
    /\ normalized_data # <<>>

\* C4: in a headerless file, the mapping that gave the columns their field names and
\* stands behind the rows of the output, inferred or supplied by the caller, covers
\* transaction_date, amount, currency, status and description.
C4_UsedMappingCoversRequired ==
    (~has_header /\ headers # <<>> /\ normalized_data # <<>>) =>
        /\ mapping.kind = "mapping"
        /\ Required \subseteq Range(mapping.map)

\* C8: every record of the output has exactly the header names as its fields, the
\* header names being those fixed by the first row of the file (its snake_case names,
\* or the names the mapping gives its columns), and they stay so to the end of the file.
C8_FieldSetIsHeaderSet ==
    /\ \A i \in 1..Len(normalized_data) :
          DOMAIN normalized_data[i].fields = Range(headers)
    /\ (pc \in {"rows", "done"} \/ (pc = "raised" /\ pos > 1)) => headers = FileHeaders
    /\ pc = "done" =>
          \A i \in 1..Len(result.val) : DOMAIN result.val[i].fields = Range(FileHeaders)

\* C8's case: a file with a header row returned two records of five fields.
C8_Witness ==
    /\ pc = "done" /\ has_header
    /\ Len(result.val) = 2
    /\ Cardinality(Range(headers)) = Cardinality(Required)
    /\ DESCRIPTION \in DOMAIN result.val[1].fields

====
